---- MODULE Spec2Model ----
(***************************************************************************)
(* Data Quality Metadata API (backend/main.py, backend/models.py).         *)
(*                                                                         *)
(* The service is one table, quality_logs, created at import time by       *)
(* create_all, and two routes: GET /health (a constant) and GET /logs      *)
(* (every row of the table, read through a per-request session).  Rows are *)
(* written by an external producer through the DQResult model.             *)
(***************************************************************************)
EXTENDS Integers, Sequences, FiniteSets, TLC

\* ---------------------------------------------------------------- bounds
MaxRows == 2        \* rows the external producer inserts
MaxClock == 1       \* ticks of the wall clock read by datetime.utcnow

\* ------------------------------------------------------- fixed small sets
Workers == {"w1", "w2"}          \* server processes importing main.py
Reqs == {"r1", "r2"}             \* requests that can be in flight at once
SessionIds == 1 .. Cardinality(Reqs)
Ids == 1 .. MaxRows              \* primary keys in use
Times == 0 .. MaxClock

\* Python None / a present value
None == << >>
Some(v) == << v >>
IsNone(o) == o = None
Val(o) == o[1]

\* The text columns a producer supplies (models.py:8-11); all nullable.
Sales ==
  [dataset_name |-> Some("sales"), rule_type |-> Some("null_check"),
   severity |-> Some("high"), message |-> Some("3 nulls found")]
Orders ==
  [dataset_name |-> Some("orders"), rule_type |-> Some("range_check"),
   severity |-> None, message |-> None]
Payloads == {Sales, Orders}

VARIABLES
  dbUp,          \* the storage behind database.engine is reachable
  tableExists,   \* quality_logs exists in the storage
  rows,          \* the rows of quality_logs, in insertion order
  inserted,      \* per row: what the producer supplied, the key it got and
                 \* the clock the timestamp default read
  now,           \* the wall clock
  boot,          \* per worker: "init" (main.py not yet imported) or "serving"
  reensured,     \* some create_all has run over an existing, populated table
  open,          \* sessions currently open
  req            \* per request slot: its position, session and response

vars == << dbUp, tableExists, rows, inserted, now, boot, reensured, open, req >>

\* ------------------------------------------------------------ sequences
Range(s) == { s[i] : i \in 1 .. Len(s) }

Perms(s) ==
  { [i \in 1 .. Len(s) |-> s[f[i]]] :
      f \in { g \in [1 .. Len(s) -> 1 .. Len(s)] :
                \A i, j \in 1 .. Len(s) : i # j => g[i] # g[j] } }

Min(S) == CHOOSE x \in S : \A y \in S : x <= y

\* ------------------------------------------------- models.py: DQResult
\* Column(Integer, primary_key=True): the key the storage assigns when the
\* producer supplies none is one no row of the table holds.
AutoIds(rs) == Ids \ { r.id : r \in Range(rs) }

\* A timestamp column declared without its default.
TimestampNoDefault(ts) == ts

\* Column(DateTime, default=datetime.datetime.utcnow)
TimestampDefault(ts) == IF IsNone(ts) THEN Some(now) ELSE ts

\* The row an INSERT through DQResult stores, for the key k it ends up with.
DQResult(k, p, ts) ==
  [id |-> k,
   dataset_name |-> p.dataset_name,
   rule_type |-> p.rule_type,
   severity |-> p.severity,
   message |-> p.message,
   timestamp |-> TimestampDefault(ts)]

\* An id column that is no primary key: any key is accepted.
NoPrimaryKey(rs, k) == TRUE

\* The primary key refuses a key some row already holds.
PrimaryKeyOk(rs, k) == \A r \in Range(rs) : r.id # k

\* create_all that drops and recreates the table.
create_all_drop(db) == [ok |-> TRUE, exists |-> TRUE, rows |-> << >>]

\* An import that never issues CREATE TABLE.
create_all_skip(db) == [ok |-> TRUE, exists |-> db.exists, rows |-> db.rows]

\* ------------------------------------------------ main.py:6 create_all
\* metadata.create_all(bind=engine): CREATE TABLE only when the table is
\* absent (checkfirst); an existing table and its rows are left alone.
create_all(db) ==
  [ok |-> TRUE,
   exists |-> TRUE,
   rows |-> IF db.exists THEN db.rows ELSE << >>]

Db == [exists |-> tableExists, rows |-> rows]

\* ------------------------------------------------- JSON serialisation
JNull == [t |-> "null", v |-> "null"]
JNum(n) == [t |-> "num", v |-> n]
JStr(s) == [t |-> "str", v |-> s]

\* datetime -> ISO-8601 text
IsoFormat(t) == "1970-01-01T00:00:0" \o ToString(t)

JText(o) == IF IsNone(o) THEN JNull ELSE JStr(Val(o))
JTime(o) == IF IsNone(o) THEN JNull ELSE JStr(IsoFormat(Val(o)))

\* The response encoder applied to one DQResult object.
Serialize(r) ==
  [id |-> JNum(r.id),
   dataset_name |-> JText(r.dataset_name),
   rule_type |-> JText(r.rule_type),
   severity |-> JText(r.severity),
   message |-> JText(r.message),
   timestamp |-> JTime(r.timestamp)]

SerializeAll(rs) == [i \in 1 .. Len(rs) |-> Serialize(rs[i])]

\* ------------------------------------------------------ main.py routes
\* A health check that probes the storage.
health_check_probe ==
  IF dbUp THEN [status |-> 200, body |-> [status |-> "active", engine |-> "FastAPI"]]
          ELSE [status |-> 503, body |-> [status |-> "down", engine |-> "FastAPI"]]

\* main.py:10
health_check == [status |-> 200, body |-> [status |-> "active", engine |-> "FastAPI"]]

\* .first() in place of .all(): at most one row.
QueryFirst(rs) == { IF rs = << >> THEN << >> ELSE << rs[1] >> }

\* main.py:14  db.query(models.DQResult).all(): every row, no WHERE, no
\* ORDER BY, no LIMIT; the order is the storage's.
QueryAll(rs) == Perms(rs)

\* A handler that swallows the exception and returns what it fetched.
LogsResponseSwallow(ok, result, partial) ==
  [status |-> 200, body |-> SerializeAll(IF ok THEN result ELSE partial)]

\* main.py:12-14  the response of GET /logs.  ok: the query ran to its end
\* and returned result; otherwise the query raised after fetching partial,
\* the exception leaves get_logs and the framework answers 500.
LogsResponse(ok, result, partial) ==
  IF ok
    THEN [status |-> 200, body |-> SerializeAll(result)]
    ELSE [status |-> 500, body |-> "Internal Server Error"]

\* database.SessionLocal: a session no other request holds.
SessionLocal == Min(SessionIds \ open)

\* A free request slot.  up (GET /health), raised and seen (GET /logs)
\* record the storage as the handler found it: reachable or not, whether
\* the query raised, and the table it ran against.
Idle ==
  [pc |-> "idle", kind |-> "none", session |-> 0, tries |-> 0,
   up |-> TRUE, raised |-> FALSE, seen |-> << >>, status |-> 0, body |-> << >>]

\* ------------------------------------------------------------------ Init
Init ==
  /\ dbUp = TRUE
  /\ tableExists \in BOOLEAN
  /\ rows = << >>
  /\ inserted = << >>
  /\ now = 0
  /\ boot = [w \in Workers |-> "init"]
  /\ reensured = FALSE
  /\ open = {}
  /\ req = [r \in Reqs |-> Idle]

\* ------------------------------------------------------------ environment
\* The wall clock advances.
Tick ==
  /\ now < MaxClock
  /\ now' = now + 1
  /\ UNCHANGED << dbUp, tableExists, rows, inserted, boot, reensured, open, req >>

\* The storage becomes unreachable / reachable again.
StorageDown ==
  /\ dbUp
  /\ dbUp' = FALSE
  /\ UNCHANGED << tableExists, rows, inserted, now, boot, reensured, open, req >>

StorageUp ==
  /\ ~dbUp
  /\ dbUp' = TRUE
  /\ UNCHANGED << tableExists, rows, inserted, now, boot, reensured, open, req >>

\* The external producer inserts one row through DQResult.  id and ts are
\* what it supplies (None: left to the column default).  An insert the
\* primary key refuses changes nothing.
Insert(p, id, ts) ==
  /\ dbUp
  /\ tableExists
  /\ Len(rows) < MaxRows
  /\ \E k \in (IF IsNone(id) THEN AutoIds(rows) ELSE {Val(id)}) :
       /\ PrimaryKeyOk(rows, k)
       /\ rows' = Append(rows, DQResult(k, p, ts))
       /\ inserted' = Append(inserted, [p |-> p, id |-> id, ts |-> ts, key |-> k,
                utcnow |-> IF IsNone(ts) THEN Some(now) ELSE None])
  /\ UNCHANGED << dbUp, tableExists, now, boot, reensured, open, req >>

\* ------------------------------------------------------ main.py:5-6 import
\* A worker imports main.py: create_all runs before any route is served.
\* With the storage unreachable create_all raises, the import fails and
\* the worker does not start.
Startup(w) ==
  /\ boot[w] = "init"
  /\ dbUp
  /\ LET out == create_all(Db) IN
       /\ tableExists' = out.exists
       /\ rows' = out.rows
       /\ out.ok
       /\ boot' = [boot EXCEPT ![w] = "serving"]
  /\ reensured' = (reensured \/ (tableExists /\ rows # << >>))
  /\ UNCHANGED << dbUp, inserted, now, open, req >>

\* ------------------------------------------------------- GET /health
Health(r, w) ==
  /\ req[r].pc = "idle"
  /\ boot[w] = "serving"
  /\ req' = [req EXCEPT ![r] =
       [Idle EXCEPT !.pc = "done", !.kind = "health", !.up = dbUp,
                    !.status = health_check.status, !.body = health_check.body]]
  /\ UNCHANGED << dbUp, tableExists, rows, inserted, now, boot, reensured, open >>

\* --------------------------------------------------------- GET /logs
\* One module-level session handed to every request.
LogsEnterShared(r, w) ==
  /\ req[r].pc = "idle"
  /\ boot[w] = "serving"
  /\ open' = open \cup {1}
  /\ req' = [req EXCEPT ![r] =
       [Idle EXCEPT !.pc = "handler", !.kind = "logs", !.session = 1]]
  /\ UNCHANGED << dbUp, tableExists, rows, inserted, now, boot, reensured >>

\* main.py:13  the framework resolves Depends(database.SessionLocal).
LogsEnter(r, w) ==
  /\ req[r].pc = "idle"
  /\ boot[w] = "serving"
  /\ SessionIds \ open # {}
  /\ LET s == SessionLocal IN
       /\ open' = open \cup {s}
       /\ req' = [req EXCEPT ![r] =
            [Idle EXCEPT !.pc = "handler", !.kind = "logs", !.session = s]]
  /\ UNCHANGED << dbUp, tableExists, rows, inserted, now, boot, reensured >>

\* A handler that deletes what it has read.
get_logs_purge(r) ==
  /\ req[r].pc = "handler"
  /\ dbUp /\ tableExists
  /\ rows' = << >>
  /\ req' = [req EXCEPT ![r].pc = "responded",
                        ![r].tries = @ + 1,
                        ![r].seen = rows,
                        ![r].status = 200,
                        ![r].body = SerializeAll(rows)]
  /\ UNCHANGED << dbUp, tableExists, inserted, now, boot, reensured, open >>

\* main.py:14  the handler body and the response built from its outcome.
\* The query raises when the storage is unreachable, when the table is
\* missing, or on a fault of the storage while rows are being fetched.
get_logs(r) ==
  /\ req[r].pc = "handler"
  /\ \E result \in QueryAll(rows), fault \in BOOLEAN, k \in 0 .. Len(rows) :
       LET ok == dbUp /\ tableExists /\ ~fault
           fetched == IF Len(result) < k THEN result ELSE SubSeq(result, 1, k)
           resp == LogsResponse(ok, result, fetched)
       IN  req' = [req EXCEPT ![r].pc = "responded",
                              ![r].tries = @ + 1,
                              ![r].raised = ~ok,
                              ![r].seen = rows,
                              ![r].status = resp.status,
                              ![r].body = resp.body]
  /\ UNCHANGED << dbUp, tableExists, rows, inserted, now, boot, reensured, open >>

\* A request that ends without closing its session.
SessionLeak(r) ==
  /\ req[r].pc = "responded"
  /\ req' = [req EXCEPT ![r] =
       [Idle EXCEPT !.pc = "done", !.kind = "logs", !.session = req[r].session,
                    !.raised = req[r].raised]]
  /\ UNCHANGED << dbUp, tableExists, rows, inserted, now, boot, reensured, open >>

\* The response has been sent and the request ends: the session the
\* dependency opened is closed.
SessionClose(r) ==
  /\ req[r].pc = "responded"
  /\ open' = open \ {req[r].session}
  /\ req' = [req EXCEPT ![r] =
       [Idle EXCEPT !.pc = "done", !.kind = "logs", !.session = req[r].session,
                    !.raised = req[r].raised]]
  /\ UNCHANGED << dbUp, tableExists, rows, inserted, now, boot, reensured >>

\* The client has read the response; the slot is free again.
Forget(r) ==
  /\ req[r].pc = "done"
  /\ req' = [req EXCEPT ![r] = Idle]
  /\ UNCHANGED << dbUp, tableExists, rows, inserted, now, boot, reensured, open >>

\* ------------------------------------------------------------------ Next
\* One step of the system with workers WS, request slots RS and a producer
\* that supplies a payload of PS, an id of IS and a timestamp of TS.
Step(WS, RS, PS, IS, TS) ==
  \/ Tick
  \/ StorageDown
  \/ StorageUp
  \/ \E p \in PS, id \in IS, ts \in TS : Insert(p, id, ts)
  \/ \E w \in WS : Startup(w)
  \/ \E r \in RS, w \in WS : Health(r, w)
  \/ \E r \in RS, w \in WS : LogsEnter(r, w)
  \/ \E r \in RS : get_logs(r)
  \/ \E r \in RS : SessionClose(r)
  \/ \E r \in RS : Forget(r)

\* The service under concurrent requests; the producer sends one payload
\* and leaves id and timestamp to the column defaults.
Next == Step(Workers, Reqs, {Sales}, {None}, {None})

Spec == Init /\ [][Next]_vars

\* One worker serving one request at a time; the producer supplies or omits
\* id and timestamp freely.
NextData ==
  Step({"w1"}, {"r1"}, Payloads, {None} \cup { Some(i) : i \in Ids }, {None, Some(0)})

SpecData == Init /\ [][NextData]_vars

\* ---------------------------------------------------------------- claims
LogsAnswered(r) == req[r].kind = "logs" /\ req[r].pc = "responded"
LogsInFlight(r) == req[r].kind = "logs" /\ req[r].pc \in {"handler", "responded"}

\* C1: a GET /logs whose query did not raise answers 200 with exactly one
\* element per row of the table it ran against: as many elements as rows,
\* and the elements' ids are the rows' ids, each once.
LogsReturnsEveryRow ==
  \A r \in Reqs :
    (LogsAnswered(r) /\ ~req[r].raised) =>
      /\ req[r].status = 200
      /\ Len(req[r].body) = Len(req[r].seen)
      /\ \E x \in Perms(req[r].seen) :
           \A i \in 1 .. Len(x) : req[r].body[i].id = JNum(x[i].id)

\* C1 witness: one request answered the empty table with no element while
\* another answered a table of two rows or more.
LogsReturnsEveryRowWitness ==
  \E r1, r2 \in Reqs :
    /\ LogsAnswered(r1) /\ ~req[r1].raised /\ req[r1].seen = << >>
    /\ req[r1].body = << >>
    /\ LogsAnswered(r2) /\ ~req[r2].raised /\ Len(req[r2].body) >= 2

\* What a JSON value says of the column it encodes.
FromJson(j) == IF j.t = "null" THEN None ELSE Some(j.v)

\* Element e of a response is the row the producer inserted as ins.
ElementOf(e, ins) ==
  /\ DOMAIN e = {"id", "dataset_name", "rule_type", "severity", "message", "timestamp"}
  /\ e.id.t = "num"
  /\ e.id.v = ins.key
  /\ ~IsNone(ins.id) => e.id.v = Val(ins.id)
  /\ FromJson(e.dataset_name) = ins.p.dataset_name
  /\ FromJson(e.rule_type) = ins.p.rule_type
  /\ FromJson(e.severity) = ins.p.severity
  /\ FromJson(e.message) = ins.p.message
  /\ e.timestamp.t = "str"
  /\ e.timestamp.v = IsoFormat(IF IsNone(ins.ts) THEN Val(ins.utcnow) ELSE Val(ins.ts))

\* C2: every element of a 200 response of GET /logs has the six fields of
\* one row of the table: the text columns as the producer supplied them, a
\* non-null id (the supplied one if any) and a non-null timestamp (the
\* supplied one, else the clock at the insertion).
ElementsAreInsertedRows ==
  \A r \in Reqs :
    (LogsAnswered(r) /\ req[r].status = 200) =>
      \A j \in 1 .. Len(req[r].body) :
        \E i \in 1 .. Len(req[r].seen) :
          i <= Len(inserted) /\ ElementOf(req[r].body[j], inserted[i])

\* C2 witness: a response holds a row whose producer supplied neither id
\* nor timestamp, inserted after the clock had advanced, and a second row.
ElementsAreInsertedRowsWitness ==
  \E r \in Reqs :
    /\ LogsAnswered(r) /\ req[r].status = 200 /\ Len(req[r].body) = 2
    /\ \E j \in 1 .. 2, i \in 1 .. 2 :
         /\ ElementOf(req[r].body[j], inserted[i])
         /\ IsNone(inserted[i].id) /\ IsNone(inserted[i].ts)
         /\ inserted[i].utcnow = Some(1)
         /\ IsNone(inserted[i].p.severity)

\* C3: every answer of GET /health is 200 with the fixed body, and a
\* serving worker can answer it in any state: nothing of the table or the
\* storage is read.
HealthAlwaysActive ==
  /\ \A r \in Reqs :
       req[r].kind = "health" =>
         /\ req[r].status = 200
         /\ req[r].body = [status |-> "active", engine |-> "FastAPI"]
  /\ \A r \in Reqs, w \in Workers :
       (req[r].pc = "idle" /\ boot[w] = "serving") => ENABLED Health(r, w)

\* C3 witness: a health check answered while the storage was unreachable,
\* the table holding rows and a GET /logs in flight.
HealthAlwaysActiveWitness ==
  \E r, q \in Reqs :
    /\ req[r].kind = "health" /\ ~req[r].up
    /\ rows # << >>
    /\ LogsInFlight(q)

\* C4: every open session belongs to a GET /logs still being handled: once
\* a request has ended, on the 200 path or the 500 path, its session is
\* closed.
SessionsReleased ==
  \A s \in open : \E r \in Reqs : LogsInFlight(r) /\ req[r].session = s

\* C4 witness: a GET /logs whose query raised has ended, another has ended
\* normally, and no session is open.
SessionsReleasedWitness ==
  \E r, q \in Reqs :
    /\ req[r].pc = "done" /\ req[r].kind = "logs" /\ req[r].raised
    /\ req[q].pc = "done" /\ req[q].kind = "logs" /\ ~req[q].raised
    /\ open = {}

\* C5: two GET /logs in flight never hold the same session, each holds an
\* open one, and a response is the table its query ran against, in some
\* order, whatever else is in flight.
SessionsNotShared ==
  /\ \A r, q \in Reqs :
       (r # q /\ LogsInFlight(r) /\ LogsInFlight(q)) => req[r].session # req[q].session
  /\ \A r \in Reqs : LogsInFlight(r) => req[r].session \in open
  /\ \A r \in Reqs :
       (LogsAnswered(r) /\ ~req[r].raised) =>
         req[r].body \in { SerializeAll(x) : x \in Perms(req[r].seen) }

\* C5 witness: two GET /logs in flight at once, one answered and one not.
SessionsNotSharedWitness ==
  \E r, q \in Reqs :
    /\ r # q
    /\ LogsAnswered(r) /\ ~req[r].raised /\ req[r].seen # << >>
    /\ req[q].kind = "logs" /\ req[q].pc = "handler"

\* C6: a GET /logs whose query raised answers 500 with the generic body; a
\* 200 never carries fewer rows than the table held; and a request runs
\* its query once.
FailureIsServerError ==
  \A r \in Reqs :
    /\ req[r].tries <= 1
    /\ LogsAnswered(r) =>
         /\ req[r].raised => (req[r].status = 500 /\ req[r].body = "Internal Server Error")
         /\ req[r].status = 200 => (~req[r].raised /\ Len(req[r].body) = Len(req[r].seen))

\* C6 witness: a query raised over a table holding rows, the storage
\* unreachable.
FailureIsServerErrorWitness ==
  \E r \in Reqs :
    LogsAnswered(r) /\ req[r].raised /\ req[r].seen # << >> /\ ~dbUp

\* C7: create_all succeeds on any storage state, applied twice it gives
\* what it gives applied once, and a start-up over an existing table
\* leaves the table and its rows as they were.
CreateAllIdempotent ==
  /\ [](LET once == create_all(Db)
            twice == create_all([exists |-> once.exists, rows |-> once.rows])
        IN  /\ once.ok /\ twice.ok
            /\ once.exists
            /\ twice.exists = once.exists /\ twice.rows = once.rows
            /\ tableExists => once.rows = rows)
  /\ [][\A w \in Workers :
          Startup(w) => (tableExists' /\ (tableExists => rows' = rows))]_vars

\* C7 witness: every worker has started, one of them over an existing
\* table holding rows, and the rows are there.
CreateAllIdempotentWitness ==
  /\ reensured
  /\ rows # << >>
  /\ \A w \in Workers : boot[w] = "serving"

\* C8: no two rows share an id, and a step never changes the id of a row
\* nor removes a row.
IdsUniqueAndStable ==
  /\ [](\A i, j \in 1 .. Len(rows) : i # j => rows[i].id # rows[j].id)
  /\ [][/\ Len(rows') >= Len(rows)
        /\ \A i \in 1 .. Len(rows) : rows'[i].id = rows[i].id]_vars

\* C8 witness: a row with a storage-assigned id and a row with a supplied
\* id, after a start-up and a GET /logs.
IdsUniqueAndStableWitness ==
  /\ Len(rows) = 2
  /\ IsNone(inserted[1].id) /\ ~IsNone(inserted[2].id)
  /\ reensured
  /\ \E r \in Reqs : LogsAnswered(r) /\ Len(req[r].seen) = 2

\* A step of one of the two routes.
ServiceStep ==
  \E r \in Reqs :
    \/ \E w \in Workers : Health(r, w) \/ LogsEnter(r, w)
    \/ get_logs(r)
    \/ SessionClose(r)
    \/ Forget(r)

\* C9: no step of GET /health or GET /logs, answered 200 or 500, changes
\* the table: a step that changes the rows or the table's existence is no
\* step of a route.
ServiceIsReadOnly ==
  [][(rows' # rows \/ tableExists' # tableExists) => ~ServiceStep]_vars

\* C9 witness: a GET /logs that raised and a GET /health have been served
\* over a table that holds the rows it held.
ServiceIsReadOnlyWitness ==
  \E r, q \in Reqs :
    /\ LogsAnswered(r) /\ req[r].raised /\ req[r].seen = rows /\ rows # << >>
    /\ req[q].kind = "health"

\* C10: a request is served only once a worker has run create_all, and
\* the table exists whenever a request is being served.
SchemaBeforeRequests ==
  \A r \in Reqs :
    req[r].pc # "idle" => (tableExists /\ \E w \in Workers : boot[w] = "serving")

\* C10 witness: a GET /logs answered 200 by the one worker that has
\* started.
SchemaBeforeRequestsWitness ==
  \E r \in Reqs, w \in Workers :
    /\ LogsAnswered(r) /\ req[r].status = 200
    /\ boot[w] = "init"

====
